---- MODULE Spec2Model ----
(***************************************************************************)
(* Model of the Celsius js SDK core (lib/core.js): the constructor         *)
(* Celsius(config), which resolves and validates the configuration and     *)
(* creates the HTTP client, and the nine facade operations, each of which  *)
(* delegates to httpClient.get or httpClient.post.                         *)
(*                                                                         *)
(* lib/config.js, lib/consts.js and lib/http-client.js are required by     *)
(* core.js but are not part of the sources at hand; CONFIG, PATHS, ERRORS, *)
(* AUTH_METHODS, ENVIRONMENT and the HttpClient are modelled from the      *)
(* specification (sections 3, 4.1-4.4 and 7).                              *)
(*                                                                         *)
(* A JavaScript object is a function from its own property names to        *)
(* values; a property the object does not have reads as Undefined.         *)
(***************************************************************************)
EXTENDS Integers, Sequences, FiniteSets, TLC

VARIABLES
    CONFIG,         \* the defaults table of lib/config.js, by environment
    callerConfig,   \* per client: the caller's config object after Celsius(config)
    client,         \* per client: unbuilt, threw (with the error) or ready
                    \* (with the resolved config and the HTTP client)
    calls           \* per slot: one invocation of an operation, from the
                    \* dispatcher call to the settled promise

vars == <<CONFIG, callerConfig, client, calls>>

\* ------------------------------------------------------------------ values

Undefined == "undefined"
Null == "null"

\* !v for the values of the model: undefined, null and the empty string.
Falsy(v) == v \in {Undefined, Null, ""}

\* obj[k] in JavaScript: the own property, or undefined.
Get(obj, k) == IF k \in DOMAIN obj THEN obj[k] ELSE Undefined

EmptyObject == [k \in {} |-> Undefined]

\* Object.assign(target, a, b): the own properties of a, then of b, written
\* over those of target; the later source wins.
ObjectAssign(target, a, b) ==
    [k \in DOMAIN target \cup DOMAIN a \cup DOMAIN b |->
        IF k \in DOMAIN b THEN b[k]
        ELSE IF k \in DOMAIN a THEN a[k]
        ELSE target[k]]

\* ------------------------------------------------------------------ consts

ENVIRONMENT_PRODUCTION == "production"
ENVIRONMENT_STAGING == "staging"
ENVIRONMENT_DEVELOPMENT == "development"

AUTH_METHODS_API_KEY == "API_KEY"
AUTH_METHODS_USER_TOKEN == "USER_TOKEN"

ERRORS_INVALID_AUTH_METHOD == "INVALID_AUTH_METHOD"
ERRORS_INVALID_PARTNER_KEY == "INVALID_PARTNER_KEY"

Environments ==
    {ENVIRONMENT_PRODUCTION, ENVIRONMENT_STAGING, ENVIRONMENT_DEVELOPMENT}

\* The per-environment defaults of lib/config.js: base URL and trust anchor.
DefaultsTable ==
    [e \in Environments |->
        [baseUrl |-> "https://api." \o e, publicKey |-> "pub-" \o e]]

\* ------------------------------------------------------------------ inputs

Clients == {"A", "B"}

\* What a caller may pass as config.environment, config.authMethod,
\* config.partnerKey: Absent stands for a property the caller left out.
Absent == "<absent>"

EnvironmentInputs == Environments \cup {"sandbox", Absent}
AuthMethodInputs ==
    {AUTH_METHODS_API_KEY, AUTH_METHODS_USER_TOKEN, "BASIC", Absent}
PartnerKeyInputs == {"partner-key-1", "", Undefined, Absent}
OverrideInputs ==
    { EmptyObject,
      [baseUrl |-> "https://proxy.partner", publicKey |-> "pub-partner"] }

\* The object with the properties of `fields` that are not Absent.
ObjectOf(fields) ==
    [k \in {x \in DOMAIN fields : fields[x] # Absent} |-> fields[k]]

ConfigInputs ==
    { ObjectAssign(EmptyObject,
                   ObjectOf([environment |-> e, authMethod |-> a, partnerKey |-> p]),
                   o) :
        e \in EnvironmentInputs, a \in AuthMethodInputs,
        p \in PartnerKeyInputs, o \in OverrideInputs }

\* ------------------------------------------------------------- constructor

\* Variant of SelectDefaultsKey: the requested environment is ignored and
\* production's defaults are always taken.
SelectDefaultsKeyProductionOnly(config) == ENVIRONMENT_PRODUCTION

\* core.js 70-73: the key of the defaults to use: the requested environment,
\* production when CONFIG[config.environment] is undefined (every entry of
\* the table is an object, hence truthy).
SelectDefaultsKey(config) ==
    IF Get(config, "environment") \in DOMAIN CONFIG
    THEN Get(config, "environment")
    ELSE ENVIRONMENT_PRODUCTION

\* Variant of MergeConfig: Object.assign({}, config, defaultConfig), the
\* defaults written over the caller's values.
MergeConfigDefaultsWin(defaultConfig, config) ==
    [ merged |-> ObjectAssign(EmptyObject, config, defaultConfig),
      defaults |-> defaultConfig,
      caller |-> config ]

\* Variant of MergeConfig: Object.assign(defaultConfig, config), the merge
\* written into the entry of the defaults table.
MergeConfigIntoDefaults(defaultConfig, config) ==
    [ merged |-> ObjectAssign(defaultConfig, EmptyObject, config),
      defaults |-> ObjectAssign(defaultConfig, EmptyObject, config),
      caller |-> config ]

\* core.js 74: config = Object.assign({}, defaultConfig, config).  The three
\* objects after the call: the merge is written into the first argument, a
\* fresh object, and the two sources are only read.
MergeConfig(defaultConfig, config) ==
    [ merged |-> ObjectAssign(EmptyObject, defaultConfig, config),
      defaults |-> defaultConfig,
      caller |-> config ]

\* Variant of ValidateConfig: || for && in the auth method test.
ValidateConfigEitherDiffers(config) ==
    IF \/ Get(config, "authMethod") # AUTH_METHODS_API_KEY
       \/ Get(config, "authMethod") # AUTH_METHODS_USER_TOKEN
    THEN ERRORS_INVALID_AUTH_METHOD
    ELSE IF Falsy(Get(config, "partnerKey"))
    THEN ERRORS_INVALID_PARTNER_KEY
    ELSE "none"

\* Variant of ValidateConfig: the partner key is checked first.
ValidateConfigKeyFirst(config) ==
    IF Falsy(Get(config, "partnerKey"))
    THEN ERRORS_INVALID_PARTNER_KEY
    ELSE IF /\ Get(config, "authMethod") # AUTH_METHODS_API_KEY
            /\ Get(config, "authMethod") # AUTH_METHODS_USER_TOKEN
    THEN ERRORS_INVALID_AUTH_METHOD
    ELSE "none"

\* Variant of ValidateConfig: the partner key is not checked.
ValidateConfigAuthOnly(config) ==
    IF /\ Get(config, "authMethod") # AUTH_METHODS_API_KEY
       /\ Get(config, "authMethod") # AUTH_METHODS_USER_TOKEN
    THEN ERRORS_INVALID_AUTH_METHOD
    ELSE "none"

\* core.js 76-82: the error the constructor throws, "none" when it passes.
ValidateConfig(config) ==
    IF /\ Get(config, "authMethod") # AUTH_METHODS_API_KEY
       /\ Get(config, "authMethod") # AUTH_METHODS_USER_TOKEN
    THEN ERRORS_INVALID_AUTH_METHOD
    ELSE IF Falsy(Get(config, "partnerKey"))
    THEN ERRORS_INVALID_PARTNER_KEY
    ELSE "none"

Unbuilt ==
    [state |-> "unbuilt", given |-> EmptyObject, config |-> EmptyObject,
     error |-> "none", httpClient |-> FALSE]

\* core.js 69-86: Celsius(config) called for client c.  `given` keeps the
\* argument as it was passed; callerConfig[c] is the caller's object after
\* the call.  A throw leaves no client object and no HTTP client.
Celsius(c, config) ==
    /\ client[c].state = "unbuilt"
    /\ LET key == SelectDefaultsKey(config)
           m == MergeConfig(CONFIG[key], config)
           err == ValidateConfig(m.merged)
       IN /\ CONFIG' = [CONFIG EXCEPT ![key] = m.defaults]
          /\ callerConfig' = [callerConfig EXCEPT ![c] = m.caller]
          /\ client' = [client EXCEPT ![c] =
                IF err # "none"
                THEN [state |-> "threw", given |-> config,
                      config |-> EmptyObject, error |-> err,
                      httpClient |-> FALSE]
                ELSE [state |-> "ready", given |-> config,
                      config |-> m.merged, error |-> "none",
                      httpClient |-> TRUE]]
    /\ UNCHANGED calls

\* ------------------------------------------------------------------- PATHS

PATHS_KYC == "/kyc"
PATHS_BALANCE_SUMMARY == "/balance"
PATHS_COIN_BALANCE(coin) == "/balance/" \o coin
PATHS_TRANSACTIONS_SUMMARY == "/transactions"
PATHS_COIN_TRANSACTIONS(coin) == "/transactions/" \o coin
PATHS_DEPOSIT(coin) == "/deposit/" \o coin
PATHS_WITHDRAW(coin) == "/withdraw/" \o coin
PATHS_TRANSACTION_STATUS(transaction) == "/transactions/status/" \o transaction

\* -------------------------------------------------------------- HttpClient

\* httpClient.get(path, payload, userSecret) as the facade calls it.
HttpGet(path, payload, userSecret) ==
    [verb |-> "GET", path |-> path, payload |-> payload,
     attachments |-> Undefined, userSecret |-> userSecret]

\* httpClient.post(path, payload, attachments, userSecret) as the facade
\* calls it.
HttpPost(path, payload, attachments, userSecret) ==
    [verb |-> "POST", path |-> path, payload |-> payload,
     attachments |-> attachments, userSecret |-> userSecret]

\* The request the HTTP client created with `config` sends for a dispatcher
\* call: a read carries its payload as query parameters and has no body; a
\* write carries its payload as the body and its attachments as a separate
\* multipart payload.  Both carry the partner credential of the client and
\* the user secret of the call.
BuildRequest(config, d) ==
    [ method |-> d.verb,
      baseUrl |-> Get(config, "baseUrl"),
      path |-> d.path,
      query |-> IF d.verb = "GET" THEN d.payload ELSE Null,
      body |-> IF d.verb = "POST" THEN d.payload ELSE Null,
      multipart |-> IF d.verb = "POST" THEN d.attachments ELSE Null,
      headers |-> [ partner |-> Get(config, "partnerKey"),
                    scheme |-> Get(config, "authMethod"),
                    user |-> d.userSecret ] ]

\* ------------------------------------------------------------------ facade

\* core.js 100-102
getKycStatusCall(userSecret) == HttpGet(PATHS_KYC, Null, userSecret)

\* Variant of verifyKycCall: the two payloads in each other's place.
verifyKycCallSwapped(userData, documents, userSecret) ==
    HttpPost(PATHS_KYC, documents, userData, userSecret)

\* core.js 116-118
verifyKycCall(userData, documents, userSecret) ==
    HttpPost(PATHS_KYC, userData, documents, userSecret)

\* core.js 128-130
getBalanceSummaryCall(userSecret) ==
    HttpGet(PATHS_BALANCE_SUMMARY, Null, userSecret)

\* core.js 143-145
getCoinBalanceCall(coin, userSecret) ==
    HttpGet(PATHS_COIN_BALANCE(coin), Null, userSecret)

\* core.js 159-161
getTransactionSummaryCall(pagination, userSecret) ==
    HttpGet(PATHS_TRANSACTIONS_SUMMARY, pagination, userSecret)

\* core.js 176-178
getCoinTransactionsCall(coin, pagination, userSecret) ==
    HttpGet(PATHS_COIN_TRANSACTIONS(coin), pagination, userSecret)

\* core.js 191-193
getDepositCall(coin, userSecret) ==
    HttpGet(PATHS_DEPOSIT(coin), Null, userSecret)

\* Variant of withdrawCall: post called with three arguments, so that the
\* user secret lands in the attachments parameter and none is passed.
withdrawCallThreeArguments(coin, formFields, userSecret) ==
    HttpPost(PATHS_WITHDRAW(coin), formFields, userSecret, Undefined)

\* core.js 207-209
withdrawCall(coin, formFields, userSecret) ==
    HttpPost(PATHS_WITHDRAW(coin), formFields, Null, userSecret)

\* core.js 222-224
getTransactionStatusCall(transaction, userSecret) ==
    HttpGet(PATHS_TRANSACTION_STATUS(transaction), Null, userSecret)

Pending == [kind |-> "pending"]

Idle ==
    [pc |-> "idle", client |-> "-", op |-> "-", args |-> EmptyObject,
     dispatched |-> <<>>, requests |-> <<>>, transport |-> "-",
     envelope |-> <<>>, verifications |-> 0, events |-> <<>>,
     outcome |-> Pending]

\* The record of a call: the operation `op` of client c invoked with `args`
\* makes the dispatcher call d on the HTTP client the constructor created
\* with the resolved configuration (core.js 84), which sends the request.
\* Every invocation has a record of its own.
StartCall(c, op, args, d) ==
    [Idle EXCEPT !.pc = "inflight", !.client = c, !.op = op, !.args = args,
                 !.dispatched = <<d>>,
                 !.requests = <<BuildRequest(client[c].config, d)>>,
                 !.events = <<"send">>]

\* core.js 86-225: the operations exist on the object the constructor
\* returned; slot i is free for a new invocation.
Callable(i, c) == client[c].state = "ready" /\ calls[i].pc = "idle"

\* Variant of getKycStatus: the user secret is kept on the shared
\* configuration of the client instead of being passed with the call.
getKycStatusSharedSecret(i, c, userSecret) ==
    /\ Callable(i, c)
    /\ calls' = [calls EXCEPT ![i] =
            StartCall(c, "getKycStatus", [userSecret |-> userSecret],
                      getKycStatusCall(userSecret))]
    /\ client' = [client EXCEPT ![c].config =
            ObjectAssign(@, EmptyObject, [userSecret |-> userSecret])]
    /\ UNCHANGED <<CONFIG, callerConfig>>

\* core.js 100-102
getKycStatus(i, c, userSecret) ==
    /\ Callable(i, c)
    /\ calls' = [calls EXCEPT ![i] =
            StartCall(c, "getKycStatus", [userSecret |-> userSecret],
                      getKycStatusCall(userSecret))]
    /\ UNCHANGED <<CONFIG, callerConfig, client>>

\* core.js 116-118
verifyKyc(i, c, userData, documents, userSecret) ==
    /\ Callable(i, c)
    /\ calls' = [calls EXCEPT ![i] =
            StartCall(c, "verifyKyc",
                      [userData |-> userData, documents |-> documents,
                       userSecret |-> userSecret],
                      verifyKycCall(userData, documents, userSecret))]
    /\ UNCHANGED <<CONFIG, callerConfig, client>>

\* core.js 128-130
getBalanceSummary(i, c, userSecret) ==
    /\ Callable(i, c)
    /\ calls' = [calls EXCEPT ![i] =
            StartCall(c, "getBalanceSummary", [userSecret |-> userSecret],
                      getBalanceSummaryCall(userSecret))]
    /\ UNCHANGED <<CONFIG, callerConfig, client>>

\* core.js 143-145
getCoinBalance(i, c, coin, userSecret) ==
    /\ Callable(i, c)
    /\ calls' = [calls EXCEPT ![i] =
            StartCall(c, "getCoinBalance",
                      [coin |-> coin, userSecret |-> userSecret],
                      getCoinBalanceCall(coin, userSecret))]
    /\ UNCHANGED <<CONFIG, callerConfig, client>>

\* core.js 159-161
getTransactionSummary(i, c, pagination, userSecret) ==
    /\ Callable(i, c)
    /\ calls' = [calls EXCEPT ![i] =
            StartCall(c, "getTransactionSummary",
                      [pagination |-> pagination, userSecret |-> userSecret],
                      getTransactionSummaryCall(pagination, userSecret))]
    /\ UNCHANGED <<CONFIG, callerConfig, client>>

\* core.js 176-178
getCoinTransactions(i, c, coin, pagination, userSecret) ==
    /\ Callable(i, c)
    /\ calls' = [calls EXCEPT ![i] =
            StartCall(c, "getCoinTransactions",
                      [coin |-> coin, pagination |-> pagination,
                       userSecret |-> userSecret],
                      getCoinTransactionsCall(coin, pagination, userSecret))]
    /\ UNCHANGED <<CONFIG, callerConfig, client>>

\* core.js 191-193
getDeposit(i, c, coin, userSecret) ==
    /\ Callable(i, c)
    /\ calls' = [calls EXCEPT ![i] =
            StartCall(c, "getDeposit",
                      [coin |-> coin, userSecret |-> userSecret],
                      getDepositCall(coin, userSecret))]
    /\ UNCHANGED <<CONFIG, callerConfig, client>>

\* core.js 207-209
withdraw(i, c, coin, formFields, userSecret) ==
    /\ Callable(i, c)
    /\ calls' = [calls EXCEPT ![i] =
            StartCall(c, "withdraw",
                      [coin |-> coin, formFields |-> formFields,
                       userSecret |-> userSecret],
                      withdrawCall(coin, formFields, userSecret))]
    /\ UNCHANGED <<CONFIG, callerConfig, client>>

\* core.js 222-224
getTransactionStatus(i, c, transaction, userSecret) ==
    /\ Callable(i, c)
    /\ calls' = [calls EXCEPT ![i] =
            StartCall(c, "getTransactionStatus",
                      [transaction |-> transaction, userSecret |-> userSecret],
                      getTransactionStatusCall(transaction, userSecret))]
    /\ UNCHANGED <<CONFIG, callerConfig, client>>

\* ---------------------------------------------------------------- verifier

\* The signing key that belongs to each verification key.
KeyPairs ==
    { <<"priv-" \o e, "pub-" \o e>> : e \in Environments \cup {"partner", "attacker"} }

Digest(body) == <<"digest", body>>

\* The signature the holder of `privateKey` makes over `body`.
Sign(privateKey, body) == [key |-> privateKey, digest |-> Digest(body)]

\* verify(envelope, trustAnchorPublicKey): the signature was made over this
\* body with the private key of the anchor.
Verify(envelope, publicKey) ==
    /\ <<envelope.signature.key, publicKey>> \in KeyPairs
    /\ envelope.signature.digest = Digest(envelope.body)

SuccessStatus(status) == status \in 200..299

\* What the caller gets for a response: the signature is verified first,
\* then the status is looked at.
Resolve(envelope, publicKey) ==
    IF ~Verify(envelope, publicKey)
    THEN [kind |-> "failure", error |-> "SignatureVerificationFailed"]
    ELSE IF ~SuccessStatus(envelope.status)
    THEN [kind |-> "failure", error |-> "RemoteError",
          statusCode |-> envelope.status, body |-> envelope.body]
    ELSE [kind |-> "success", value |-> envelope.body]

\* The response handler of the HTTP client: one verification, then the
\* promise settles.
OnResponse(call, envelope, publicKey) ==
    LET out == Resolve(envelope, publicKey)
    IN [call EXCEPT !.pc = "done", !.transport = "response",
                    !.envelope = <<envelope>>,
                    !.verifications = @ + 1,
                    !.events = @ \o <<"receive", "verify",
                                      IF out.kind = "success" THEN "resolve"
                                      ELSE "reject">>,
                    !.outcome = out]

\* Variant of OnTransportError: the request is sent once more before the
\* failure is reported.
OnTransportErrorRetry(call) ==
    IF Len(call.requests) < 2
    THEN [call EXCEPT !.requests = @ \o <<@[1]>>,
                      !.events = @ \o <<"send">>]
    ELSE [call EXCEPT !.pc = "done", !.transport = "failed",
                      !.events = @ \o <<"reject">>,
                      !.outcome = [kind |-> "failure", error |-> "NetworkError"]]

\* The transport error handler of the HTTP client: the promise is rejected,
\* nothing is sent again.
OnTransportError(call) ==
    [call EXCEPT !.pc = "done", !.transport = "failed",
                 !.events = @ \o <<"reject">>,
                 !.outcome = [kind |-> "failure", error |-> "NetworkError"]]

\* A response arrives for call i.
Response(i, envelope) ==
    /\ calls[i].pc = "inflight"
    /\ calls' = [calls EXCEPT ![i] =
            OnResponse(@, envelope, Get(client[@.client].config, "publicKey"))]
    /\ UNCHANGED <<CONFIG, callerConfig, client>>

\* The transport fails for call i (connection refused, timeout).
TransportFailure(i) ==
    /\ calls[i].pc = "inflight"
    /\ calls' = [calls EXCEPT ![i] = OnTransportError(@)]
    /\ UNCHANGED <<CONFIG, callerConfig, client>>

\* ------------------------------------------------------------------ scopes

Envelopes(statuses, bodies, keys) ==
    { [status |-> s, body |-> b, signature |-> Sign(k, signed)] :
        s \in statuses, b \in bodies, k \in keys, signed \in bodies }

Coins == {"BTC", "ETH"}
UserSecrets == {"user-token-1", "user-token-2"}
Paginations == {"{page:1,perPage:20}"}
UserDatas == {"{first_name:Satoshi}"}
DocumentSets == {"{document_front_image,document_back_image}"}
FormFieldSets == {"{address:1A2b,amount:0.5}"}
Transactions == {"tx-17"}

MaxCalls == 2

StagingConfig ==
    [environment |-> ENVIRONMENT_STAGING, authMethod |-> AUTH_METHODS_USER_TOKEN,
     partnerKey |-> "partner-key-1"]
ProductionConfig ==
    [authMethod |-> AUTH_METHODS_API_KEY, partnerKey |-> "partner-key-2"]

\* One client, one call at a time, every argument and every response.
CallScope ==
    [ clients |-> {"A"}, configs |-> {StagingConfig, ProductionConfig},
      slots |-> {1}, coins |-> Coins, secrets |-> UserSecrets,
      envelopes |-> Envelopes({200, 400}, {"body-1", "body-2"},
                              {"priv-production", "priv-staging", "priv-attacker"}) ]

\* One client, MaxCalls calls outstanding at once.
ConcurrentScope ==
    [ clients |-> {"A"}, configs |-> {StagingConfig},
      slots |-> 1..MaxCalls, coins |-> {"BTC"}, secrets |-> UserSecrets,
      envelopes |-> { [status |-> 200, body |-> "body-1",
                       signature |-> Sign("priv-staging", "body-1")],
                      [status |-> 200, body |-> "body-2",
                       signature |-> Sign("priv-staging", "body-2")],
                      [status |-> 200, body |-> "body-1",
                       signature |-> Sign("priv-attacker", "body-1")] } ]

\* Two clients built from every configuration, one call at a time.
ConstructionScope ==
    [ clients |-> Clients, configs |-> ConfigInputs,
      slots |-> {1}, coins |-> {"BTC"}, secrets |-> {"user-token-1"},
      envelopes |-> Envelopes({200}, {"body-1"}, {"priv-production"}) ]

InitOf(scope) ==
    /\ CONFIG = DefaultsTable
    /\ callerConfig = [c \in Clients |-> EmptyObject]
    /\ client = [c \in Clients |-> Unbuilt]
    /\ calls = [i \in scope.slots |-> Idle]

NextOf(scope) ==
    \/ \E c \in scope.clients, config \in scope.configs : Celsius(c, config)
    \/ \E i \in scope.slots, c \in scope.clients, u \in scope.secrets :
        \/ getKycStatus(i, c, u)
        \/ \E d \in UserDatas, f \in DocumentSets : verifyKyc(i, c, d, f, u)
        \/ getBalanceSummary(i, c, u)
        \/ \E coin \in scope.coins : getCoinBalance(i, c, coin, u)
        \/ \E p \in Paginations : getTransactionSummary(i, c, p, u)
        \/ \E coin \in scope.coins, p \in Paginations :
                getCoinTransactions(i, c, coin, p, u)
        \/ \E coin \in scope.coins : getDeposit(i, c, coin, u)
        \/ \E coin \in scope.coins, f \in FormFieldSets : withdraw(i, c, coin, f, u)
        \/ \E t \in Transactions : getTransactionStatus(i, c, t, u)
    \/ \E i \in scope.slots, e \in scope.envelopes : Response(i, e)
    \/ \E i \in scope.slots : TransportFailure(i)

Init == InitOf(CallScope)
Next == NextOf(CallScope)
Spec == Init /\ [][Next]_vars

ConcurrentInit == InitOf(ConcurrentScope)
ConcurrentNext == NextOf(ConcurrentScope)
ConcurrentSpec == ConcurrentInit /\ [][ConcurrentNext]_vars

ConstructionInit == InitOf(ConstructionScope)
ConstructionNext == NextOf(ConstructionScope)
ConstructionSpec == ConstructionInit /\ [][ConstructionNext]_vars

\* ------------------------------------------------------------------ claims

ConfigurationErrors == {ERRORS_INVALID_AUTH_METHOD, ERRORS_INVALID_PARTNER_KEY}

\* The caller's auth method is one of the two recognized values.
AuthMethodRecognized(given) ==
    \/ ("authMethod" \in DOMAIN given /\ given["authMethod"] = "API_KEY")
    \/ ("authMethod" \in DOMAIN given /\ given["authMethod"] = "USER_TOKEN")

\* The caller's partner key is absent (left out or undefined) or empty.
PartnerKeyMissing(given) ==
    \/ "partnerKey" \notin DOMAIN given
    \/ given["partnerKey"] = Undefined
    \/ given["partnerKey"] = ""

\* The defaults table that applies to a caller's config: the requested
\* environment's, production's when it is unrecognized or not given.
TableFor(given) ==
    IF "environment" \in DOMAIN given
       /\ given["environment"] \in {"production", "staging", "development"}
    THEN DefaultsTable[given["environment"]]
    ELSE DefaultsTable["production"]

Constructed == {c \in Clients : client[c].state # "unbuilt"}
Started == {i \in DOMAIN calls : calls[i].pc # "idle"}
Done == {i \in DOMAIN calls : calls[i].pc = "done"}

\* C2: Celsius(config) throws a configuration error exactly when the auth
\* method is not API_KEY or USER_TOKEN or the partner key is empty or
\* absent; for every other config it returns the client.
C2_ConstructionFailsIffInvalid ==
    \A c \in Constructed :
        LET invalid == ~AuthMethodRecognized(client[c].given)
                       \/ PartnerKeyMissing(client[c].given)
        IN /\ invalid =>
                /\ client[c].state = "threw"
                /\ client[c].error \in ConfigurationErrors
           /\ ~invalid =>
                /\ client[c].state = "ready"
                /\ client[c].error = "none"
                /\ client[c].httpClient

\* Both outcomes of construction: one client threw on a missing partner key
\* under a recognized auth method, the other was built.
C2_Witness ==
    /\ client["A"].state = "threw"
    /\ AuthMethodRecognized(client["A"].given)
    /\ PartnerKeyMissing(client["A"].given)
    /\ client["B"].state = "ready"

\* C3: the resolved Configuration has the caller's value for every field
\* the caller supplied, and for every other field the default of the
\* requested environment's table, production's when the environment is
\* unrecognized or not given.
C3_DefaultsByEnvironmentCallerWins ==
    \A c \in Constructed :
        client[c].state = "ready" =>
            LET given == client[c].given
                resolved == client[c].config
            IN /\ DOMAIN resolved = DOMAIN given \cup DOMAIN TableFor(given)
               /\ \A k \in DOMAIN given : resolved[k] = given[k]
               /\ \A k \in DOMAIN TableFor(given) \ DOMAIN given :
                        resolved[k] = TableFor(given)[k]

\* A client built for an unrecognized environment holds production's
\* defaults, and one built for staging with its own base URL and key holds
\* the caller's values.
C3_Witness ==
    /\ client["A"].state = "ready"
    /\ Get(client["A"].given, "environment") = "sandbox"
    /\ "baseUrl" \notin DOMAIN client["A"].given
    /\ client["A"].config["baseUrl"] = "https://api.production"
    /\ client["B"].state = "ready"
    /\ Get(client["B"].given, "environment") = "staging"
    /\ Get(client["B"].given, "baseUrl") = "https://proxy.partner"
    /\ client["B"].config["baseUrl"] = "https://proxy.partner"
    /\ client["B"].config["publicKey"] = "pub-partner"

\* C10: the auth method is validated before the partner key: the
\* constructor throws the invalid-auth-method error whenever the auth method
\* is unrecognized, also when the partner key is missing too, and the
\* invalid-partner-key error only under a recognized auth method.
C10_AuthMethodCheckedFirst ==
    \A c \in Constructed :
        client[c].state = "threw" =>
            /\ ~AuthMethodRecognized(client[c].given) =>
                    client[c].error = ERRORS_INVALID_AUTH_METHOD
            /\ client[c].error = ERRORS_INVALID_PARTNER_KEY =>
                    /\ AuthMethodRecognized(client[c].given)
                    /\ PartnerKeyMissing(client[c].given)

\* A config with an unrecognized auth method and no partner key was
\* rejected for its auth method.
C10_Witness ==
    \E c \in Clients :
        /\ client[c].state = "threw"
        /\ ~AuthMethodRecognized(client[c].given)
        /\ PartnerKeyMissing(client[c].given)
        /\ client[c].error = ERRORS_INVALID_AUTH_METHOD

\* C8: a configuration error is raised at construction only: for an invalid
\* config the constructor throws before the HTTP client is created, no
\* client exists and nothing is ever sent for it; every request comes from
\* a client whose construction succeeded and carries its validated
\* credentials, and no call fails with a configuration error.
C8_ConfigurationErrorOnlyAtConstruction ==
    /\ \A c \in Constructed :
        /\ (~AuthMethodRecognized(client[c].given)
            \/ PartnerKeyMissing(client[c].given)) => client[c].state = "threw"
        /\ client[c].state = "threw" =>
            /\ ~client[c].httpClient
            /\ client[c].error \in ConfigurationErrors
            /\ \A i \in Started : calls[i].client # c
    /\ \A i \in Started :
        /\ client[calls[i].client].state = "ready"
        /\ client[calls[i].client].httpClient
        /\ \A n \in DOMAIN calls[i].requests :
            /\ calls[i].requests[n].headers.scheme \in {"API_KEY", "USER_TOKEN"}
            /\ calls[i].requests[n].headers.partner \notin {Undefined, ""}
        /\ calls[i].outcome.kind = "failure" =>
                calls[i].outcome.error \notin ConfigurationErrors

\* Construction threw for one client, and a call on the other, which was
\* built, has failed, with a network error.
C8_Witness ==
    /\ client["A"].state = "threw"
    /\ client["B"].state = "ready"
    /\ calls[1].pc = "done"
    /\ calls[1].client = "B"
    /\ calls[1].outcome.kind = "failure"

\* A step leaves every client that was already constructed, and its
\* caller's config object, as they were.
ConstructedClientsKept ==
    \A c \in Clients :
        client[c].state # "unbuilt" =>
            /\ client'[c] = client[c]
            /\ callerConfig'[c] = callerConfig[c]

\* C9: construction, whether it succeeds or throws, leaves the caller's
\* config object and the defaults table unchanged, and no step, of
\* another construction or of any operation, changes a resolved
\* Configuration afterwards.
C9_ConstructionAndCallsLeaveConfigsAlone ==
    /\ [](/\ CONFIG = DefaultsTable
          /\ \A c \in Constructed : callerConfig[c] = client[c].given)
    /\ [][ConstructedClientsKept]_vars

\* Two clients were built from different configs, one of them has completed
\* a call, and the table and both callers' objects are as they were.
C9_Witness ==
    /\ client["A"].state = "ready"
    /\ client["B"].state = "ready"
    /\ client["A"].given # client["B"].given
    /\ client["A"].config # client["B"].config
    /\ calls[1].pc = "done"
    /\ CONFIG = DefaultsTable
    /\ callerConfig["A"] = client["A"].given
    /\ callerConfig["B"] = client["B"].given

\* The trust anchor of a client: the public key its caller supplied, else
\* the one of the defaults table that applies.
TrustAnchor(c) ==
    IF "publicKey" \in DOMAIN client[c].given
    THEN client[c].given["publicKey"]
    ELSE TableFor(client[c].given)["publicKey"]

\* The envelope's signature was made over its body by the holder of the
\* private key of `anchor`.
Authentic(envelope, anchor) ==
    /\ \E e \in {"production", "staging", "development", "partner"} :
            /\ anchor = "pub-" \o e
            /\ envelope.signature.key = "priv-" \o e
    /\ envelope.signature.digest = <<"digest", envelope.body>>

\* The positions of event e in the events of call i.
EventAt(i, e) == {n \in DOMAIN calls[i].events : calls[i].events[n] = e}

Responded == {i \in DOMAIN calls : calls[i].transport = "response"}

\* C1: for every response received, verification runs exactly once, before
\* the call settles; a response whose signature does not verify against the
\* trust anchor of the client settles the call as a failure, and a success
\* value is the body of a response that verified.
C1_UnverifiedResponseNeverSucceeds ==
    /\ \A i \in Responded :
        /\ calls[i].verifications = 1
        /\ Cardinality(EventAt(i, "verify")) = 1
        /\ \A v \in EventAt(i, "verify"),
              r \in EventAt(i, "resolve") \cup EventAt(i, "reject") : v < r
        /\ ~Authentic(calls[i].envelope[1], TrustAnchor(calls[i].client)) =>
                calls[i].outcome.kind = "failure"
    /\ \A i \in DOMAIN calls :
        calls[i].outcome.kind = "success" =>
            /\ i \in Responded
            /\ Authentic(calls[i].envelope[1], TrustAnchor(calls[i].client))
            /\ calls[i].outcome.value = calls[i].envelope[1].body

\* A response signed by another key than the anchor's has been received,
\* verified once, and the call has failed on it.
C1_Witness ==
    \E i \in Responded :
        /\ calls[i].envelope[1].status = 200
        /\ calls[i].envelope[1].signature.key = "priv-attacker"
        /\ calls[i].verifications = 1
        /\ calls[i].outcome.kind = "failure"
        /\ calls[i].outcome.error = "SignatureVerificationFailed"

\* C4: every outbound request carries the partner credential of the client
\* that sent it, one value for all calls of the client, and the user
\* secret given as the last argument of the call.
C4_RequestsCarryBothCredentials ==
    /\ \A i \in Started :
        /\ Len(calls[i].requests) >= 1
        /\ \A n \in DOMAIN calls[i].requests :
            /\ calls[i].requests[n].headers.partner
                    = client[calls[i].client].given["partnerKey"]
            /\ calls[i].requests[n].headers.partner \notin {Undefined, Null, ""}
            /\ calls[i].requests[n].headers.user = calls[i].args["userSecret"]
    /\ \A i, j \in Started :
        calls[i].client = calls[j].client =>
            calls[i].requests[1].headers.partner
                = calls[j].requests[1].headers.partner

\* Two calls of one client are outstanding for different users: a
\* withdrawal and a KYC submission.
C4_Witness ==
    \E i, j \in Started :
        /\ calls[i].op = "withdraw"
        /\ calls[j].op = "verifyKyc"
        /\ calls[i].client = calls[j].client
        /\ calls[i].requests[1].headers.user = "user-token-1"
        /\ calls[j].requests[1].headers.user = "user-token-2"
        /\ calls[i].requests[1].headers.partner = "partner-key-1"

\* The row of the facade table for an operation and its arguments: verb,
\* path, and what goes out as query, body and multipart payload.
TableRow(op, args) ==
    CASE op = "getKycStatus" ->
            [verb |-> "GET", path |-> "/kyc",
             query |-> Null, body |-> Null, multipart |-> Null]
      [] op = "verifyKyc" ->
            [verb |-> "POST", path |-> "/kyc",
             query |-> Null, body |-> args["userData"],
             multipart |-> args["documents"]]
      [] op = "getBalanceSummary" ->
            [verb |-> "GET", path |-> "/balance",
             query |-> Null, body |-> Null, multipart |-> Null]
      [] op = "getCoinBalance" ->
            [verb |-> "GET", path |-> "/balance/" \o args["coin"],
             query |-> Null, body |-> Null, multipart |-> Null]
      [] op = "getTransactionSummary" ->
            [verb |-> "GET", path |-> "/transactions",
             query |-> args["pagination"], body |-> Null, multipart |-> Null]
      [] op = "getCoinTransactions" ->
            [verb |-> "GET", path |-> "/transactions/" \o args["coin"],
             query |-> args["pagination"], body |-> Null, multipart |-> Null]
      [] op = "getDeposit" ->
            [verb |-> "GET", path |-> "/deposit/" \o args["coin"],
             query |-> Null, body |-> Null, multipart |-> Null]
      [] op = "withdraw" ->
            [verb |-> "POST", path |-> "/withdraw/" \o args["coin"],
             query |-> Null, body |-> args["formFields"], multipart |-> Null]
      [] op = "getTransactionStatus" ->
            [verb |-> "GET",
             path |-> "/transactions/status/" \o args["transaction"],
             query |-> Null, body |-> Null, multipart |-> Null]

\* C5: each facade operation makes exactly one dispatcher call, with the
\* verb, path and payload of its row of the table; the request has the
\* payload as query (GET) or body (POST), the documents of verifyKyc as the
\* separate multipart payload, and nothing where the row has no payload.
C5_OneDispatcherCallPerTableRow ==
    \A i \in Started :
        LET row == TableRow(calls[i].op, calls[i].args)
        IN /\ Len(calls[i].dispatched) = 1
           /\ calls[i].dispatched[1].verb = row.verb
           /\ calls[i].dispatched[1].path = row.path
           /\ calls[i].dispatched[1].payload
                = (IF row.verb = "GET" THEN row.query ELSE row.body)
           /\ row.verb = "POST" =>
                calls[i].dispatched[1].attachments = row.multipart
           /\ Len(calls[i].requests) = 1
           /\ calls[i].requests[1].method = row.verb
           /\ calls[i].requests[1].path = row.path
           /\ calls[i].requests[1].query = row.query
           /\ calls[i].requests[1].body = row.body
           /\ calls[i].requests[1].multipart = row.multipart

\* getCoinTransactions('BTC', pagination, token) has issued a GET to
\* /transactions/BTC with the pagination as query and the token as user
\* credential.
C5_Witness ==
    \E i \in Started :
        /\ calls[i].op = "getCoinTransactions"
        /\ calls[i].requests[1].method = "GET"
        /\ calls[i].requests[1].path = "/transactions/BTC"
        /\ calls[i].requests[1].query = "{page:1,perPage:20}"
        /\ calls[i].requests[1].headers.user = "user-token-1"

OwnRequest(i) ==
    LET row == TableRow(calls[i].op, calls[i].args)
        r == calls[i].requests[1]
    IN /\ Len(calls[i].requests) = 1
       /\ r.path = row.path
       /\ r.query = row.query
       /\ r.body = row.body
       /\ r.multipart = row.multipart
       /\ r.headers.user = calls[i].args["userSecret"]

\* Call i has settled with the outcome of the response, or the transport
\* failure, of call i.
OwnOutcome(i) ==
    /\ calls[i].transport = "failed" =>
            calls[i].outcome = [kind |-> "failure", error |-> "NetworkError"]
    /\ calls[i].transport = "response" =>
        IF Authentic(calls[i].envelope[1], TrustAnchor(calls[i].client))
        THEN /\ calls[i].outcome.kind = "success"
             /\ calls[i].outcome.value = calls[i].envelope[1].body
        ELSE calls[i].outcome =
                [kind |-> "failure", error |-> "SignatureVerificationFailed"]

\* A step of a call touches that call alone: no other call changes, a
\* settled call stays as it is, a request once sent is not altered, and the
\* clients, their configurations and the defaults table are not written.
IndependentStep ==
    /\ Cardinality({i \in DOMAIN calls : calls'[i] # calls[i]}) <= 1
    /\ calls' # calls =>
            /\ client' = client
            /\ CONFIG' = CONFIG
            /\ callerConfig' = callerConfig
    /\ \A i \in DOMAIN calls :
        /\ calls[i].pc = "done" => calls'[i] = calls[i]
        /\ calls[i].pc = "inflight" =>
            /\ calls'[i].requests = calls[i].requests
            /\ calls'[i].args = calls[i].args

\* C7: calls outstanding at once on one client are independent under every
\* interleaving: each request is made of its own call's path, payload and
\* user secret, each call settles with the outcome of its own response, and
\* no step of a call changes another call or the Configuration.
C7_ConcurrentCallsIndependent ==
    /\ [](/\ \A i \in Started : OwnRequest(i)
          /\ \A i \in Done : OwnOutcome(i))
    /\ [][IndependentStep]_vars

\* One call has succeeded with its response while another, sent for another
\* user to another path, is still in flight.
C7_Witness ==
    \E i, j \in Started :
        /\ calls[i].pc = "done"
        /\ calls[i].outcome = [kind |-> "success", value |-> "body-2"]
        /\ calls[j].pc = "inflight"
        /\ calls[i].client = calls[j].client
        /\ calls[i].requests[1].headers.user # calls[j].requests[1].headers.user
        /\ calls[i].requests[1].path # calls[j].requests[1].path
====
